---- MODULE Spec2Model ----
(***************************************************************************)
(* A model of the PowerLink2 client of src/index.js: one client instance,  *)
(* a bounded number of getStatus / setStatus invocations that may overlap, *)
(* and the transport answering the login requests it was given.            *)
(*                                                                         *)
(* JavaScript runs each callback to completion, so one action is one       *)
(* callback: an API call up to the point where it returns, or the handling *)
(* of one response.                                                        *)
(*                                                                         *)
(* Line 219 reads self.config.timeout.  The constructor (lines 11-25)      *)
(* stores failSafe, log, debug, baseURL, username, password and timeout on *)
(* the instance, and nothing in the file stores a property named config,   *)
(* so self.config is undefined and the read raises a TypeError whenever    *)
(* the request descriptor has no timeout of its own.  getStatus (43-51)    *)
(* and setStatus (117-123) build descriptors without one.  Control         *)
(* therefore never reaches request(config, ...) on line 221: the model has *)
(* no action for lines 221-241, nor for the response branches of the       *)
(* getStatus and setStatus callbacks, because no behaviour of the code     *)
(* takes them.                                                             *)
(***************************************************************************)
EXTENDS Naturals, Sequences, FiniteSets, TLC

\* The number of getStatus / setStatus invocations of one behaviour.
NumOps == 3

\* The invocations, numbered in the order in which they are issued.
Ops == 1..NumOps

\* JavaScript's undefined, as a property value.
Undefined == "undefined"

\* No error: the null / undefined first argument of a callback.
NoError == <<>>

\* config.timeout || 2500 on line 24.
DefaultTimeout == 2500

\* The config.timeout values the constructor is given: 0 stands for an absent
\* (falsy) timeout.
ConfigTimeouts == {0, 1000}

\* PowerLink2.STATUSES
STATUSES == {"disarmed", "home", "away", "exit delay", "unknown"}

\* The cookies a login response can carry.
Cookies == {"c1", "c2"}

\* The bodies of a login response: one without the NOT:: marker, one with it,
\* one with it and a lockout time.
LoginBodies == {"OK", "NOT::", "NOT:: time left:9"}

\* body.match(/NOT::/) != null
HasNotMarker(body) == body \in {"NOT::", "NOT:: time left:9"}

\* body.match(/time left:(.+)/)
LockedOut(body) == body = "NOT:: time left:9"

VARIABLES
    timeout,        \* self.timeout
    failSafe,       \* self.failSafe
    cookie,         \* self.cookie
    lastStatus,     \* self.lastStatus
    getStatusIndex, \* self.getStatusIndex
    pc,             \* where each invocation is
    call,           \* what each invocation was called with
    config,         \* each invocation's request descriptor
    result,         \* what each invocation's callback was called with
    completions,    \* how many times each invocation's callback was called
    queue,          \* oneConcurrent: the callers of the running call
    wire,           \* every request handed to the transport, in order
    attempt         \* the position in wire of the login an invocation waits for

vars == <<timeout, failSafe, cookie, lastStatus, getStatusIndex, pc, call,
          config, result, completions, queue, wire, attempt>>

Range(s) == {s[i] : i \in DOMAIN s}

NoCall == [kind |-> "none", target |-> "-"]

NoConfig == [url |-> "-", curindex |-> "-", set |-> "-", cookie |-> "-",
             timeout |-> 0]

NoResult == [err |-> NoError, status |-> "-"]

\* Invocation o is the next one to be issued.
Idle(o) == pc[o] = "idle" /\ \A p \in Ops : p < o => pc[p] # "idle"

\* The login requests the transport has been given and has not answered.
InFlight == {i \in DOMAIN wire : wire[i].url = "login" /\ ~wire[i].answered}

\* The property names the constructor and the methods store on the instance.
InstanceProperties ==
    {"failSafe", "log", "debug", "baseURL", "username", "password", "timeout",
     "cookie", "lastStatus", "getStatusIndex"}

Init ==
    /\ timeout \in {IF t # 0 THEN t ELSE DefaultTimeout : t \in ConfigTimeouts}
    /\ failSafe = FALSE
    /\ cookie = Undefined
    /\ lastStatus = Undefined
    /\ getStatusIndex = Undefined
    /\ pc = [o \in Ops |-> "idle"]
    /\ call = [o \in Ops |-> NoCall]
    /\ config = [o \in Ops |-> NoConfig]
    /\ result = [o \in Ops |-> NoResult]
    /\ completions = [o \in Ops |-> 0]
    /\ queue = <<>>
    /\ wire = <<>>
    /\ attempt = [o \in Ops |-> 0]

(***************************************************************************)
(* The translation tables and the error messages.                          *)
(***************************************************************************)

\* stringMap with an entry for EXIT_DELAY.
stringMap_exitDelay(status) ==
    CASE status = "disarmed" -> "Disarm"
      [] status = "home" -> "ArmHome"
      [] status = "away" -> "ArmAway"
      [] status = "exit delay" -> "ExitDelay"
      [] OTHER -> Undefined

\* stringMap[status] of setStatus (105-110).
stringMap(status) ==
    CASE status = "disarmed" -> "Disarm"
      [] status = "home" -> "ArmHome"
      [] status = "away" -> "ArmAway"
      [] OTHER -> Undefined

\* statusStringToStatus[statusString] || PowerLink2.STATUSES.UNKNOWN of
\* getStatus (81-89).
statusStringToStatus(statusString) ==
    CASE statusString \in {"Ready", "NotReady"} -> "disarmed"
      [] statusString = "Exit Delay" -> "exit delay"
      [] statusString = "HOME" -> "home"
      [] statusString = "AWAY" -> "away"
      [] OTHER -> "unknown"

\* An error is the sequence of the messages wrapped into it, outermost first.
BlockedError == <<"A previous authentication attempt failed; not continuing.">>

TransportError == <<"ETIMEDOUT">>

RejectedError(body) ==
    IF LockedOut(body) THEN <<"Locked out">>
    ELSE <<"Invalid PowerLink2 username or password provided">>

(***************************************************************************)
(* getAuthenticationCookie (138-194).                                      *)
(***************************************************************************)

\* getAuthenticationCookie without the failSafe check of lines 143-146.
getAuthenticationCookie_noFailSafe(fs, c) ==
    IF c \notin {Undefined, "null"} THEN "cached" ELSE "login"

\* getAuthenticationCookie without the cached-cookie return of lines 148-151.
getAuthenticationCookie_noCache(fs, c) == IF fs THEN "blocked" ELSE "login"

\* Lines 143-161: fail at once, hand back the cached cookie, or log in.
getAuthenticationCookie(fs, c) ==
    IF fs THEN "blocked"
    ELSE IF c \notin {Undefined, "null"} THEN "cached"
    ELSE "login"

\* The login request of lines 153-161.
LoginRequest(t) ==
    [url |-> "login", timeout |-> t, cookie |-> "-", curindex |-> "-",
     set |-> "-", answered |-> FALSE]

\* What the transport can answer to a login request: a transport error, or a
\* response with a body and a set-cookie header.
LoginResponses ==
    {[error |-> TRUE, body |-> "-", cookie |-> "-"]}
    \cup {[error |-> FALSE, body |-> b, cookie |-> c] :
             b \in LoginBodies, c \in Cookies}

\* The callback of the login request setting failSafe on a transport error as
\* it does on a rejection.
loginCallback_errorSetsFailSafe(resp, fs, c) ==
    IF resp.error \/ HasNotMarker(resp.body)
    THEN [err |-> IF resp.error THEN TransportError
                  ELSE RejectedError(resp.body),
          given |-> "-", failSafe |-> TRUE, cookie |-> c]
    ELSE [err |-> NoError, given |-> resp.cookie, failSafe |-> fs,
          cookie |-> resp.cookie]

\* The callback of the login request going on to lines 188-189 after a
\* rejection, storing the cookie of the rejecting response.
loginCallback_rejectionStoresCookie(resp, fs, c) ==
    IF resp.error
    THEN [err |-> TransportError, given |-> "-", failSafe |-> fs, cookie |-> c]
    ELSE IF HasNotMarker(resp.body)
    THEN [err |-> RejectedError(resp.body), given |-> "-", failSafe |-> TRUE,
          cookie |-> resp.cookie]
    ELSE [err |-> NoError, given |-> resp.cookie, failSafe |-> fs,
          cookie |-> resp.cookie]

\* The callback of the login request (162-193): the error and the cookie it
\* hands on, and the instance's failSafe and cookie afterwards.
loginCallback(resp, fs, c) ==
    IF resp.error
    THEN [err |-> TransportError, given |-> "-", failSafe |-> fs, cookie |-> c]
    ELSE IF HasNotMarker(resp.body)
    THEN [err |-> RejectedError(resp.body), given |-> "-", failSafe |-> TRUE,
          cookie |-> c]
    ELSE [err |-> NoError, given |-> resp.cookie, failSafe |-> fs,
          cookie |-> resp.cookie]

(***************************************************************************)
(* The callbacks of getStatus and setStatus, on an error (54-57, 124-129). *)
(***************************************************************************)

getStatusError(err) ==
    [err |-> <<"Error getting raw status">> \o err, status |-> Undefined]

setStatusError(err) == [err |-> err, status |-> "-"]

(***************************************************************************)
(* authenticatedRequest (203-243), from the outcome of the authentication  *)
(* to the request.                                                         *)
(***************************************************************************)

\* config.timeout || self.config.timeout (219): the descriptor's own timeout
\* when it has one; otherwise self.config is read, and the instance has no
\* such property.
requestTimeout(cfgTimeout) ==
    IF cfgTimeout # 0 THEN [threw |-> FALSE, value |-> cfgTimeout]
    ELSE [threw |-> "config" \notin InstanceProperties, value |-> 0]

\* Lines 209-221 calling the callback a second time after it has called it
\* with the authentication error.
authenticated_callsBackTwice(kind, cfg, err, c) ==
    IF err # NoError
    THEN [pc |-> "done", config |-> cfg, completed |-> 2, send |-> FALSE,
          result |-> IF kind = "get"
                     THEN getStatusError(<<"Failed to get authentication cookie">> \o err)
                     ELSE setStatusError(<<"Failed to get authentication cookie">> \o err)]
    ELSE LET t == requestTimeout(cfg.timeout)
             withCookie == [cfg EXCEPT !.cookie = c]
         IN  IF t.threw
             THEN [pc |-> "thrown", config |-> withCookie, completed |-> 0,
                   send |-> FALSE, result |-> NoResult]
             ELSE [pc |-> "request",
                   config |-> [withCookie EXCEPT !.timeout = t.value],
                   completed |-> 0, send |-> TRUE, result |-> NoResult]

\* Lines 209-221 for one invocation: where it is afterwards, its descriptor,
\* what its callback was called with (if it was), and whether the request was
\* handed to the transport.
authenticated(kind, cfg, err, c) ==
    IF err # NoError
    THEN [pc |-> "done", config |-> cfg, completed |-> 1, send |-> FALSE,
          result |-> IF kind = "get"
                     THEN getStatusError(<<"Failed to get authentication cookie">> \o err)
                     ELSE setStatusError(<<"Failed to get authentication cookie">> \o err)]
    ELSE LET t == requestTimeout(cfg.timeout)
             withCookie == [cfg EXCEPT !.cookie = c]
         IN  IF t.threw
             THEN [pc |-> "thrown", config |-> withCookie, completed |-> 0,
                   send |-> FALSE, result |-> NoResult]
             ELSE [pc |-> "request",
                   config |-> [withCookie EXCEPT !.timeout = t.value],
                   completed |-> 0, send |-> TRUE, result |-> NoResult]

\* The request of line 221, as the transport is given it.
Request(cfg) ==
    [url |-> cfg.url, timeout |-> cfg.timeout, cookie |-> cfg.cookie,
     curindex |-> cfg.curindex, set |-> cfg.set, answered |-> FALSE]

(***************************************************************************)
(* oneConcurrent (the one-concurrent package, required on line 2): its     *)
(* source is not part of the repository.  It is given a function and a     *)
(* callback; while a call of the function is running, further callers wait *)
(* and each is handed the outcome of that call; once it has completed the  *)
(* next caller starts a new one.                                           *)
(***************************************************************************)

\* Whether a call is running, so that a new caller waits for its outcome.
oneConcurrentBusy(q) == q # <<>>

\* The callers handed the outcome of the running call when it completes.
oneConcurrentWaiters(q) == Range(q)

\* The requests line 221 hands to the transport for the callers of q, in the
\* order of q, each continuing from the outcome (err, c) of the authentication.
RECURSIVE Requests(_, _, _)
Requests(q, err, c) ==
    IF q = <<>> THEN <<>>
    ELSE LET a == authenticated(call[Head(q)].kind, config[Head(q)], err, c)
         IN  (IF a.send THEN <<Request(a.config)>> ELSE <<>>)
                 \o Requests(Tail(q), err, c)

(***************************************************************************)
(* The actions.                                                            *)
(***************************************************************************)

\* authenticatedRequest calling getAuthenticationCookie for every caller,
\* whether or not a call is running.
authenticatedRequest_unserialized(o, kind, cfg) ==
    LET d == getAuthenticationCookie(failSafe, cookie) IN
    IF d = "login"
    THEN /\ wire' = Append(wire, LoginRequest(timeout))
         /\ queue' = Append(queue, o)
         /\ pc' = [pc EXCEPT ![o] = "authWait"]
         /\ config' = [config EXCEPT ![o] = cfg]
         /\ attempt' = [attempt EXCEPT ![o] = Len(wire) + 1]
         /\ UNCHANGED <<result, completions>>
    ELSE LET a == authenticated(kind, cfg,
                      IF d = "blocked" THEN BlockedError ELSE NoError, cookie)
         IN  /\ pc' = [pc EXCEPT ![o] = a.pc]
             /\ config' = [config EXCEPT ![o] = a.config]
             /\ result' = [result EXCEPT ![o] = a.result]
             /\ completions' = [completions EXCEPT ![o] = @ + a.completed]
             /\ wire' = IF a.send THEN Append(wire, Request(a.config))
                        ELSE wire
             /\ UNCHANGED <<queue, attempt>>

\* authenticatedRequest(config, callback) (203-221), up to the point where it
\* returns: the caller joins the running authentication, or runs
\* getAuthenticationCookie, which answers at once (143-151) or sends the login
\* request (153-161).
authenticatedRequest(o, kind, cfg) ==
    IF oneConcurrentBusy(queue)
    THEN /\ queue' = Append(queue, o)
         /\ pc' = [pc EXCEPT ![o] = "authWait"]
         /\ config' = [config EXCEPT ![o] = cfg]
         /\ attempt' = [attempt EXCEPT ![o] = attempt[Head(queue)]]
         /\ UNCHANGED <<wire, result, completions>>
    ELSE LET d == getAuthenticationCookie(failSafe, cookie) IN
         IF d = "login"
         THEN /\ wire' = Append(wire, LoginRequest(timeout))
              /\ queue' = <<o>>
              /\ pc' = [pc EXCEPT ![o] = "authWait"]
              /\ config' = [config EXCEPT ![o] = cfg]
              /\ attempt' = [attempt EXCEPT ![o] = Len(wire) + 1]
              /\ UNCHANGED <<result, completions>>
         ELSE LET a == authenticated(kind, cfg,
                           IF d = "blocked" THEN BlockedError ELSE NoError,
                           cookie)
              IN  /\ pc' = [pc EXCEPT ![o] = a.pc]
                  /\ config' = [config EXCEPT ![o] = a.config]
                  /\ result' = [result EXCEPT ![o] = a.result]
                  /\ completions' =
                         [completions EXCEPT ![o] = @ + a.completed]
                  /\ wire' = IF a.send THEN Append(wire, Request(a.config))
                             ELSE wire
                  /\ UNCHANGED <<queue, attempt>>

\* getStatus clearing failSafe, so that the caller can try again.
GetStatus_resetsFailSafe(o) ==
    /\ Idle(o)
    /\ call' = [call EXCEPT ![o] = [kind |-> "get", target |-> "-"]]
    /\ failSafe' = FALSE
    /\ authenticatedRequest(o, "get",
           [url |-> "status",
            curindex |-> IF getStatusIndex \in {Undefined, ""} THEN "0"
                         ELSE getStatusIndex,
            set |-> "-", cookie |-> "-", timeout |-> 0])
    /\ UNCHANGED <<timeout, cookie, lastStatus, getStatusIndex>>

\* getStatus storing UNKNOWN as the last status when it completes with an
\* error.
GetStatus_cachesUnknown(o) ==
    /\ Idle(o)
    /\ call' = [call EXCEPT ![o] = [kind |-> "get", target |-> "-"]]
    /\ authenticatedRequest(o, "get",
           [url |-> "status",
            curindex |-> IF getStatusIndex \in {Undefined, ""} THEN "0"
                         ELSE getStatusIndex,
            set |-> "-", cookie |-> "-", timeout |-> 0])
    /\ lastStatus' = IF pc'[o] = "done" THEN "unknown" ELSE lastStatus
    /\ UNCHANGED <<timeout, failSafe, cookie, getStatusIndex>>

\* getStatus(callback), lines 40-51.
GetStatus(o) ==
    /\ Idle(o)
    /\ call' = [call EXCEPT ![o] = [kind |-> "get", target |-> "-"]]
    /\ authenticatedRequest(o, "get",
           [url |-> "status",
            curindex |-> IF getStatusIndex \in {Undefined, ""} THEN "0"
                         ELSE getStatusIndex,
            set |-> "-", cookie |-> "-", timeout |-> 0])
    /\ UNCHANGED <<timeout, failSafe, cookie, lastStatus, getStatusIndex>>

\* setStatus(status, callback) with a status that stringMap has no entry for,
\* lines 102-115.
SetStatusUnsupported(o, status) ==
    /\ Idle(o)
    /\ stringMap(status) = Undefined
    /\ call' = [call EXCEPT ![o] = [kind |-> "set", target |-> status]]
    /\ pc' = [pc EXCEPT ![o] = "done"]
    /\ result' = [result EXCEPT
                     ![o] = setStatusError(<<"Cannot set status to", status>>)]
    /\ completions' = [completions EXCEPT ![o] = @ + 1]
    /\ UNCHANGED <<timeout, failSafe, cookie, lastStatus, getStatusIndex,
                   config, queue, wire, attempt>>

\* setStatus(status, callback) with a status that stringMap has an entry for,
\* lines 102-123.
SetStatus(o, status) ==
    /\ Idle(o)
    /\ stringMap(status) # Undefined
    /\ call' = [call EXCEPT ![o] = [kind |-> "set", target |-> status]]
    /\ authenticatedRequest(o, "set",
           [url |-> "command", curindex |-> "-", set |-> stringMap(status),
            cookie |-> "-", timeout |-> 0])
    /\ UNCHANGED <<timeout, failSafe, cookie, lastStatus, getStatusIndex>>

\* The transport answers login request i: its callback (162-193) runs, and
\* oneConcurrent hands the outcome to every waiting caller, each of which
\* continues on line 209.  A caller whose continuation raises the TypeError of
\* line 219 is taken not to keep the others from being handed the outcome.
LoginResponse(i, resp) ==
    /\ i \in InFlight
    /\ LET r == loginCallback(resp, failSafe, cookie)
           err == r.err
           w == oneConcurrentWaiters(queue)
           a == [o \in Ops |->
                    authenticated(call[o].kind, config[o], err, r.given)]
       IN  /\ failSafe' = r.failSafe
           /\ cookie' = r.cookie
           /\ pc' = [o \in Ops |-> IF o \in w THEN a[o].pc ELSE pc[o]]
           /\ config' = [o \in Ops |-> IF o \in w THEN a[o].config ELSE config[o]]
           /\ result' = [o \in Ops |-> IF o \in w THEN a[o].result ELSE result[o]]
           /\ completions' = [o \in Ops |->
                  IF o \in w THEN completions[o] + a[o].completed
                  ELSE completions[o]]
           /\ wire' = [wire EXCEPT ![i].answered = TRUE]
                          \o Requests(queue, err, r.given)
    /\ queue' = <<>>
    /\ UNCHANGED <<timeout, lastStatus, getStatusIndex, call, attempt>>

Next ==
    \/ \E o \in Ops : GetStatus(o)
    \/ \E o \in Ops, s \in STATUSES : SetStatus(o, s)
    \/ \E o \in Ops, s \in STATUSES : SetStatusUnsupported(o, s)
    \/ \E i \in DOMAIN wire, resp \in LoginResponses : LoginResponse(i, resp)

Spec == Init /\ [][Next]_vars

(***************************************************************************)
(* The claims.                                                             *)
(***************************************************************************)

\* The statuses setStatus is documented to accept.
Settable(status) == status \in {"disarmed", "home", "away"}

\* The innermost message of an error.
Cause(err) == IF err = NoError THEN "none" ELSE err[Len(err)]

\* The invocations that take their first step in this step.
Started(o) == pc[o] = "idle" /\ pc'[o] # "idle"

\* The error of an invocation's callback says that authentication is blocked.
AuthBlocked(o) == Cause(result[o].err) = BlockedError[1]

\* The error of an invocation's callback says that the status cannot be set.
UnsupportedStatus(o) ==
    result[o].err # NoError /\ result[o].err[1] = "Cannot set status to"

\* A login response with the rejection marker sets failSafe.
RejectionSetsFailSafe ==
    \A i \in DOMAIN wire, resp \in LoginResponses :
        LoginResponse(i, resp) /\ ~resp.error /\ HasNotMarker(resp.body)
            => failSafe'

\* C1, as stated: once a login response with the rejection marker has been
\* processed, every getStatus or setStatus started afterwards completes with
\* an authentication-blocked error and hands no request to the transport.
C1_EveryCallBlocked ==
    [][/\ RejectionSetsFailSafe
       /\ failSafe =>
              /\ failSafe' /\ wire' = wire
              /\ \A o \in Ops : Started(o) =>
                     pc'[o] = "done" /\ completions'[o] = 1 /\ AuthBlocked(o)']_vars

\* C1, amended: once a login response with the rejection marker has been
\* processed, every getStatus and every setStatus with a settable target
\* started afterwards completes with an authentication-blocked error, a
\* setStatus with another target completes with the unsupported-status error,
\* and none of them hands a request to the transport.
C1_CallsBlocked ==
    [][/\ RejectionSetsFailSafe
       /\ failSafe =>
              /\ failSafe' /\ wire' = wire
              /\ \A o \in Ops : Started(o) =>
                     /\ pc'[o] = "done" /\ completions'[o] = 1
                     /\ IF call'[o].kind = "set" /\ ~Settable(call'[o].target)
                        THEN UnsupportedStatus(o)'
                        ELSE AuthBlocked(o)']_vars

\* C1's case: after a rejected login, a getStatus has completed with the
\* authentication-blocked error.
C1_Witness ==
    /\ failSafe
    /\ \E o \in Ops : call[o].kind = "get" /\ pc[o] = "done" /\ AuthBlocked(o)

\* C2: the invocations that wait for authentication at the same time wait for
\* one and the same login request, which is the only one in flight and the last
\* request handed to the transport, and they leave the wait together, when it
\* is answered: exactly one login request is sent on their behalf.
C2_OneLoginForConcurrentCalls ==
    \A o1, o2 \in Ops :
        /\ pc[o1] = "authWait" /\ pc[o2] = "authWait" =>
               /\ attempt[o1] = attempt[o2]
               /\ InFlight = {attempt[o1]}
               /\ attempt[o1] = Len(wire)
        /\ pc[o1] = "authWait" => ~wire[attempt[o1]].answered
        /\ attempt[o1] # 0 /\ pc[o1] # "authWait" => wire[attempt[o1]].answered

\* C2's case: two invocations were started with no cookie cached, and both
\* have been handed the outcome of the one login request that was sent.
C2_Witness ==
    \E o1, o2 \in Ops :
        /\ o1 # o2 /\ attempt[o1] = 1 /\ attempt[o2] = 1
        /\ pc[o1] # "authWait" /\ pc[o2] # "authWait"
        /\ Len(wire) = 1

\* C3: at most one login request is in flight.
C3_OneLoginInFlight == Cardinality(InFlight) <= 1

\* C3's case: a login request is in flight and two invocations wait for it.
C3_Witness == Cardinality(InFlight) = 1 /\ Len(queue) >= 2

\* C7: setStatus with EXIT_DELAY or UNKNOWN completes at once with the
\* unsupported-status error, hands no request to the transport and leaves the
\* cookie, failSafe, the last status and the status index as they were.
C7_UnsupportedTarget ==
    [][\A o \in Ops :
           Started(o) /\ call'[o].kind = "set"
                      /\ call'[o].target \in {"exit delay", "unknown"}
               => /\ pc'[o] = "done" /\ completions'[o] = 1
                  /\ UnsupportedStatus(o)'
                  /\ UNCHANGED <<wire, cookie, failSafe, lastStatus,
                                 getStatusIndex>>]_vars

\* C7's case: setStatus(EXIT_DELAY) and setStatus(UNKNOWN) have completed with
\* the unsupported-status error.
C7_Witness ==
    \E o1, o2 \in Ops :
        /\ call[o1] = [kind |-> "set", target |-> "exit delay"]
        /\ call[o2] = [kind |-> "set", target |-> "unknown"]
        /\ UnsupportedStatus(o1) /\ UnsupportedStatus(o2)

(***************************************************************************)
(* C4, C5, C6, C8, C9 and C10 are about what follows the cookie: the       *)
(* request, its response, and what the callbacks make of it.  Each is      *)
(* stated for an invocation that authenticatedRequest has handed a cookie  *)
(* (line 217 has stored it in the descriptor's Cookie header).             *)
(***************************************************************************)

\* Line 217 has run for the invocation.
HandedCookie(o) == config[o].cookie # "-"

\* The requests on the wire that were made from the invocation's descriptor as
\* it is now.
OnWire(o) ==
    {i \in DOMAIN wire :
        /\ wire[i].url = config[o].url /\ wire[i].cookie = config[o].cookie
        /\ wire[i].curindex = config[o].curindex /\ wire[i].set = config[o].set}

\* The invocation has come to its end: it is neither waiting for the
\* authentication nor for the response to its request.
Ended(o) == pc[o] \notin {"idle", "authWait", "request"}

\* Raw status strings of a status response: those of the table of lines
\* 81-87, and one outside it.
RawStatusStrings == {"Ready", "NotReady", "Exit Delay", "HOME", "AWAY", "Armed"}

C5_RequestFollowsCookie ==
    \A o \in Ops :
        HandedCookie(o) => \E i \in OnWire(o) : wire[i].timeout = timeout

C11_NeverLeftPending ==
    \A o \in Ops :
        pc[o] # "idle" =>
            completions[o] >= 1 \/ pc[o] \in {"authWait", "request"}

\* C12: a setStatus with DISARMED, ARMED_HOME or ARMED_AWAY that was handed a
\* cookie has sent the command request, whose field 'set' is 'Disarm',
\* 'ArmHome' or 'ArmAway', and it reports an error only if the authentication
\* or the transport did.
C12_CommandSent ==
    \A o \in Ops :
        call[o].kind = "set" /\ Settable(call[o].target) =>
            /\ HandedCookie(o) =>
                   \E i \in OnWire(o) :
                       /\ wire[i].url = "command"
                       /\ wire[i].set = CASE call[o].target = "disarmed" -> "Disarm"
                                          [] call[o].target = "home" -> "ArmHome"
                                          [] call[o].target = "away" -> "ArmAway"
            /\ result[o].err # NoError =>
                   result[o].err[1] = "Failed to get authentication cookie"

\* C13: failSafe is false at construction, and once it is true it is true in
\* every later state.
C13_FailSafeMonotonic == ~failSafe /\ [][failSafe => failSafe']_vars

\* C13's case: failSafe was set, and an invocation has run since.
C13_Witness ==
    /\ failSafe
    /\ \E o \in Ops :
           attempt[o] = 0 /\ call[o].kind = "set" /\ pc[o] = "done"
                          /\ AuthBlocked(o)

\* No cookie is cached.
NoCookie == cookie \in {Undefined, "null"}

\* The invocation is one that needs a cookie.
NeedsCookie(o) ==
    call[o].kind = "get" \/ (call[o].kind = "set" /\ Settable(call[o].target))

\* C14: when the transport fails the login request, every invocation waiting
\* for it completes with that error, no cookie is cached, failSafe stays false
\* and no authentication is left running; and an invocation that needs a cookie
\* and starts in such a state sends a new login request.
C14_LoginFailureIsRetried ==
    [][/\ \A i \in DOMAIN wire, resp \in LoginResponses :
              LoginResponse(i, resp) /\ resp.error =>
                  /\ NoCookie' /\ cookie' = cookie
                  /\ ~failSafe'
                  /\ ~oneConcurrentBusy(queue')
                  /\ \A o \in Range(queue) :
                         /\ pc'[o] = "done"
                         /\ completions'[o] = completions[o] + 1
                         /\ Cause(result'[o].err) = TransportError[1]
       /\ \A o \in Ops :
              /\ Started(o) /\ NeedsCookie(o)'
              /\ NoCookie /\ ~failSafe /\ ~oneConcurrentBusy(queue)
              => wire' = Append(wire, LoginRequest(timeout))]_vars

\* C14's case: an invocation was told that the login request failed in the
\* transport, and a later invocation has sent a second login request.
C14_Witness ==
    \E o1, o2 \in Ops :
        /\ pc[o1] = "done" /\ Cause(result[o1].err) = TransportError[1]
        /\ attempt[o2] = 2 /\ attempt[o1] = 1
        /\ ~failSafe

\* The login requests handed to the transport in this step.
LoginsSent ==
    {i \in DOMAIN wire' : i \notin DOMAIN wire /\ wire'[i].url = "login"}

\* C15: a login request is sent only when failSafe is false and no cookie is
\* cached; an invocation that starts when a cookie is cached and failSafe is
\* false is handed that cookie, sends no login request and leaves the cached
\* cookie as it is.
C15_LoginOnlyWithoutCookie ==
    [][/\ LoginsSent # {} => ~failSafe /\ NoCookie
       /\ \A o \in Ops :
              Started(o) /\ NeedsCookie(o)' /\ ~failSafe /\ ~NoCookie =>
                  /\ config'[o].cookie = cookie
                  /\ cookie' = cookie
                  /\ LoginsSent = {}]_vars

\* C15's case: an invocation was handed the cached cookie without a login
\* request of its own.
C15_Witness ==
    \E o \in Ops : HandedCookie(o) /\ attempt[o] = 0 /\ config[o].cookie = cookie

C17_CallsBackAtMostOnce == \A o \in Ops : completions[o] <= 1

\* C17's case: the callbacks of an invocation that waited for the login
\* request, of one that was refused at once and of a setStatus with an
\* unsupported target have each been called.
C17_Witness ==
    \E o1, o2, o3 \in Ops :
        /\ completions[o1] = 1 /\ attempt[o1] # 0
        /\ completions[o2] = 1 /\ attempt[o2] = 0 /\ AuthBlocked(o2)
        /\ completions[o3] = 1 /\ UnsupportedStatus(o3)

\* C19: while failSafe is set, no cookie is cached.
C19_NoCookieWhenFailSafe == failSafe => NoCookie

\* C19's case: a login request was answered with the rejection marker, after
\* an earlier one had failed in the transport.
C19_Witness ==
    /\ failSafe /\ NoCookie
    /\ \E o \in Ops :
           /\ attempt[o] = 2 /\ pc[o] = "done"
           /\ \E b \in LoginBodies :
                  HasNotMarker(b) /\ Cause(result[o].err) = Cause(RejectedError(b))

====
